---------------------------- MODULE Spec2Model ----------------------------
(***************************************************************************)
(* NASDAQ-100 annual and quarterly analysis scripts                        *)
(*   src/NASDAQ_100_Annual_Analysis.py                                     *)
(*   src/Nasdaq_100_Quartely_Analysis.py                                   *)
(*                                                                         *)
(* Both scripts are straight-line programs: a per-symbol collection loop   *)
(* guarded by try/except, then a chain of whole-table statements (derive,  *)
(* pivot, merge, trend scoring, normalisation, final score, sort, export). *)
(* An uncaught exception in any whole-table statement ends the run; the    *)
(* model records that as pc = "aborted".                                   *)
(*                                                                         *)
(* Numbers are floats in the scripts.  The model keeps them exact as       *)
(* extended rationals [n, d]: d > 0 is the finite value n/d in lowest      *)
(* terms, d = 0 is +inf (n = 1), -inf (n = -1) or NaN (n = 0).  Rounding   *)
(* and the sign of zero are not represented.                               *)
(***************************************************************************)
EXTENDS Integers, Sequences, FiniteSets, TLC

VARIABLES engine, pc, pos, results, errors, df, window, df_final,
          df_combined, score_periods, input, ts_result

vars == <<engine, pc, pos, results, errors, df, window, df_final,
          df_combined, score_periods, input, ts_result>>

-----------------------------------------------------------------------------
(* Bounds of the model *)

MaxRows == 3

MaxVal == 1

MaxLen == 4

-----------------------------------------------------------------------------
(* Extended rational arithmetic (float semantics of numpy / pandas) *)

Abs(i) == IF i < 0 THEN -i ELSE i

Sgn(i) == IF i < 0 THEN -1 ELSE IF i > 0 THEN 1 ELSE 0

RECURSIVE Gcd(_, _)
Gcd(a, b) == IF b = 0 THEN a ELSE Gcd(b, a % b)

NaN == [n |-> 0, d |-> 0]

PosInf == [n |-> 1, d |-> 0]

NegInf == [n |-> -1, d |-> 0]

Rat(p, q) ==
    IF q = 0 THEN [n |-> Sgn(p), d |-> 0]
    ELSE LET g == Gcd(Abs(p), Abs(q))
         IN  [n |-> (Sgn(q) * p) \div g, d |-> Abs(q) \div g]

Num(i) == [n |-> i, d |-> 1]

IsNaN(a) == a.d = 0 /\ a.n = 0

IsInf(a) == a.d = 0 /\ a.n # 0

IsFinite(a) == a.d > 0

Neg(a) == [n |-> -a.n, d |-> a.d]

Add(a, b) ==
    IF IsNaN(a) \/ IsNaN(b) THEN NaN
    ELSE IF IsInf(a) /\ IsInf(b) THEN (IF a.n = b.n THEN a ELSE NaN)
    ELSE IF IsInf(a) THEN a
    ELSE IF IsInf(b) THEN b
    ELSE Rat(a.n * b.d + b.n * a.d, a.d * b.d)

Sub(a, b) == Add(a, Neg(b))

Mul(a, b) ==
    IF IsNaN(a) \/ IsNaN(b) THEN NaN
    ELSE IF a.d = 0 \/ b.d = 0 THEN [n |-> Sgn(a.n) * Sgn(b.n), d |-> 0]
    ELSE Rat(a.n * b.n, a.d * b.d)

Div(a, b) ==
    IF IsNaN(a) \/ IsNaN(b) THEN NaN
    ELSE IF IsInf(a) /\ IsInf(b) THEN NaN
    ELSE IF IsInf(a) THEN [n |-> a.n * (IF b.n < 0 THEN -1 ELSE 1), d |-> 0]
    ELSE IF IsInf(b) THEN Num(0)
    ELSE IF b.n = 0 THEN [n |-> Sgn(a.n), d |-> 0]
    ELSE Rat(a.n * b.d, a.d * b.n)

Rank(a) == IF a.d = 0 THEN a.n ELSE 0

Less(a, b) ==
    IF a.d = 0 \/ b.d = 0 THEN Rank(a) < Rank(b)
    ELSE a.n * b.d < b.n * a.d

Sign(a) == Sgn(a.n)

-----------------------------------------------------------------------------
(* Sequence helpers *)

RECURSIVE Reverse(_)
Reverse(s) == IF s = <<>> THEN <<>> ELSE Append(Reverse(Tail(s)), Head(s))

LastN(s, k) ==
    IF Len(s) <= k THEN s ELSE SubSeq(s, Len(s) - k + 1, Len(s))

RECURSIVE SumSeq(_)
SumSeq(s) == IF s = <<>> THEN Num(0) ELSE Add(Head(s), SumSeq(Tail(s)))

NotNa(v) == ~IsNaN(v)

DropNa(s) == SelectSeq(s, NotNa)

(* Series.mean(): NaN entries are skipped, an all-NaN group gives NaN *)
Mean(s) ==
    LET kept == DropNa(s)
    IN  IF kept = <<>> THEN NaN ELSE Div(SumSeq(kept), Num(Len(kept)))

-----------------------------------------------------------------------------
(* Periods *)

NowYear == 2026

current_year == NowYear - 1

start_year == current_year - 3

Date(y, m) == y * 12 + (m - 1)

BadLabel == -1

IsDate(label) == label >= 0

YearOf(date) == date \div 12

(* dt.to_period("Q").astype(str): "2025Q3", compared as a string, which is
   the order of the pair <<year, quarter>> *)
QuarterOf(date) == <<date \div 12, ((date % 12) \div 3) + 1>>

QuarterLess(p, q) == p[1] < q[1] \/ (p[1] = q[1] /\ p[2] < q[2])

(* symbols = nasdaq100_table['Symbol'].tolist(): the universe in page
   order, which is not the sorted order *)
symbols == <<2, 1>>

Symbols == {symbols[i] : i \in 1 .. Len(symbols)}

-----------------------------------------------------------------------------
(* Collection loop: one try block per symbol *)

(* year_int = year.year raises AttributeError on a label that is not a
   date; the quarterly loop never looks inside its labels *)
RaisesOn(label) == engine = "annual" /\ ~IsDate(label)

InWindow_NoStartYear(label) ==
    engine = "quarterly" \/ YearOf(label) <= current_year

(* if start_year <= year_int <= current_year (annual loop only) *)
InWindow(label) ==
    engine = "quarterly" \/
    (start_year <= YearOf(label) /\ YearOf(label) <= current_year)

KeyOf(label) == IF engine = "annual" THEN YearOf(label) ELSE label

(* EPS (Basic EPS or Diluted EPS): the choice is made on the columns of the
   statement, then the cell of that column is read *)
EpsOf(st, row) ==
    IF st.hasBasic THEN row.basic
    ELSE IF st.hasDiluted THEN row.diluted
    ELSE NaN

IncomeRecord(symbol, st, row) ==
    [Symbol |-> symbol, Period |-> KeyOf(row.label),
     Gross_Profit |-> row.gp, EPS |-> EpsOf(st, row), bal |-> FALSE,
     Current_Liabilities |-> NaN, Other_Current_Liabilities |-> NaN,
     Total_Assets |-> NaN]

BalanceRecord(symbol, row) ==
    [Symbol |-> symbol, Period |-> KeyOf(row.label),
     Gross_Profit |-> NaN, EPS |-> NaN, bal |-> TRUE,
     Current_Liabilities |-> row.cl, Other_Current_Liabilities |-> row.ocl,
     Total_Assets |-> row.ta]

(* for year in income.index: ... results.append({...}) *)
RECURSIVE IncomeLoop(_, _, _, _)
IncomeLoop(res, symbol, st, i) ==
    IF i > Len(st.rows) THEN [res |-> res, raised |-> FALSE]
    ELSE LET row == st.rows[i]
         IN  IF RaisesOn(row.label) THEN [res |-> res, raised |-> TRUE]
             ELSE IF InWindow(row.label)
                  THEN IncomeLoop(Append(res, IncomeRecord(symbol, st, row)),
                                  symbol, st, i + 1)
                  ELSE IncomeLoop(res, symbol, st, i + 1)

(* match = next((r for r in results if ...), None) *)
Matches(res, symbol, key) ==
    {k \in 1 .. Len(res) : res[k].Symbol = symbol /\ res[k].Period = key}

FirstMatch(res, symbol, key) ==
    CHOOSE k \in Matches(res, symbol, key) :
        \A j \in Matches(res, symbol, key) : k <= j

UpdateMatch(res, k, row) ==
    [res EXCEPT ![k] = [@ EXCEPT !.bal = TRUE,
                                 !.Current_Liabilities = row.cl,
                                 !.Other_Current_Liabilities = row.ocl,
                                 !.Total_Assets = row.ta]]

RECURSIVE BalanceLoop(_, _, _, _)
BalanceLoop(res, symbol, rows, j) ==
    IF j > Len(rows) THEN [res |-> res, raised |-> FALSE]
    ELSE LET row == rows[j]
         IN  IF RaisesOn(row.label) THEN [res |-> res, raised |-> TRUE]
             ELSE IF InWindow(row.label)
                  THEN LET key == KeyOf(row.label)
                           nxt == IF Matches(res, symbol, key) # {}
                                  THEN UpdateMatch(res, FirstMatch(res, symbol, key), row)
                                  ELSE Append(res, BalanceRecord(symbol, row))
                       IN  BalanceLoop(nxt, symbol, rows, j + 1)
                  ELSE BalanceLoop(res, symbol, rows, j + 1)

(* the body of the try block for one symbol *)
TryBody(res, symbol, income, balance) ==
    LET a == IncomeLoop(res, symbol, income, 1)
    IN  IF a.raised THEN a ELSE BalanceLoop(a.res, symbol, balance, 1)

-----------------------------------------------------------------------------
(* Derivation: sort, percentage changes, ratio *)

RowLessEq(a, b) ==
    a.Symbol < b.Symbol \/ (a.Symbol = b.Symbol /\ a.Period <= b.Period)

(* stable insertion: r goes after every row that is not greater *)
RECURSIVE InsertRow(_, _)
InsertRow(sorted, r) ==
    IF sorted = <<>> THEN <<r>>
    ELSE IF RowLessEq(Head(sorted), r)
         THEN <<Head(sorted)>> \o InsertRow(Tail(sorted), r)
         ELSE <<r>> \o sorted

(* df.sort_values(['Symbol', key]) *)
RECURSIVE SortValues(_)
SortValues(res) ==
    IF res = <<>> THEN <<>>
    ELSE InsertRow(SortValues(SubSeq(res, 1, Len(res) - 1)), res[Len(res)])

(* ((x - x.shift(1)) / x.shift(1)) * 100 *)
PctChange(x, prev) == Mul(Div(Sub(x, prev), prev), Num(100))

(* x.shift(1) inside groupby('Symbol'): the row before, when it is a row of
   the same symbol, else NaN *)
Shifted(sorted, k, field) ==
    IF k > 1 /\ sorted[k - 1].Symbol = sorted[k].Symbol
    THEN sorted[k - 1][field]
    ELSE NaN

GroupPct(sorted, k, field) ==
    PctChange(sorted[k][field], Shifted(sorted, k, field))

FillNa0(v) == IF IsNaN(v) THEN Num(0) ELSE v

LiabilityToAssetRatio(r) ==
    Mul(Div(Add(FillNa0(r.Current_Liabilities),
                FillNa0(r.Other_Current_Liabilities)),
            r.Total_Assets),
        Num(100))

DerivedRow(sorted, k) ==
    [Symbol |-> sorted[k].Symbol, Period |-> sorted[k].Period,
     Quarter |-> IF engine = "quarterly" /\ IsDate(sorted[k].Period)
                 THEN QuarterOf(sorted[k].Period) ELSE <<>>,
     Gross_Profit |-> sorted[k].Gross_Profit, EPS |-> sorted[k].EPS,
     Current_Liabilities |-> sorted[k].Current_Liabilities,
     GP_pct |-> GroupPct(sorted, k, "Gross_Profit"),
     Liability_pct |-> GroupPct(sorted, k, "Current_Liabilities"),
     EPS_pct |-> GroupPct(sorted, k, "EPS"),
     Liability_to_Asset_Ratio |-> LiabilityToAssetRatio(sorted[k])]

DeriveFrame(res) ==
    LET sorted == SortValues(res)
    IN  [k \in 1 .. Len(sorted) |-> DerivedRow(sorted, k)]

-----------------------------------------------------------------------------
(* Window reshaping: pivot, reindex, concat *)

years_order ==
    <<current_year, current_year - 1, current_year - 2, current_year - 3>>

RECURSIVE SortQuarters(_)
SortQuarters(S) ==
    IF S = {} THEN <<>>
    ELSE LET m == CHOOSE q \in S : \A r \in S : r = q \/ QuarterLess(q, r)
         IN  <<m>> \o SortQuarters(S \ {m})

(* sorted(df['Quarter'].unique())[-4:] *)
last4_qtrs(frame) ==
    LastN(SortQuarters({frame[k].Quarter : k \in 1 .. Len(frame)}), 4)

PeriodLabel(r) == IF engine = "annual" THEN r.Period ELSE r.Quarter

(* the values of one (symbol, period) group, in frame order *)
RECURSIVE GroupValues(_, _, _, _)
GroupValues(frame, symbol, label, field) ==
    IF frame = <<>> THEN <<>>
    ELSE LET r == Head(frame)
             rest == GroupValues(Tail(frame), symbol, label, field)
         IN  IF r.Symbol = symbol /\ PeriodLabel(r) = label
             THEN <<r[field]>> \o rest
             ELSE rest

(* df.pivot raises ValueError when a (Symbol, Year) pair occurs twice *)
HasDuplicateKeys(frame) ==
    \E i, j \in 1 .. Len(frame) :
        i < j /\ frame[i].Symbol = frame[j].Symbol /\ frame[i].Period = frame[j].Period

(* annual: df.pivot + reindex; quarterly: pivot_table(aggfunc='mean') + reindex.
   A label with no row gives NaN. *)
PivotCell(frame, symbol, label, field) ==
    LET vals == GroupValues(frame, symbol, label, field)
    IN  IF vals = <<>> THEN NaN
        ELSE IF engine = "annual" THEN vals[1]
        ELSE Mean(vals)

PivotRow(frame, symbol, cols, field) ==
    [i \in 1 .. Len(cols) |-> PivotCell(frame, symbol, cols[i], field)]

RECURSIVE SymbolValues(_, _, _)
SymbolValues(frame, symbol, field) ==
    IF frame = <<>> THEN <<>>
    ELSE IF Head(frame).Symbol = symbol
         THEN <<Head(frame)[field]>> \o SymbolValues(Tail(frame), symbol, field)
         ELSE SymbolValues(Tail(frame), symbol, field)

FrameSymbols(frame) == {frame[k].Symbol : k \in 1 .. Len(frame)}

(* pd.concat([df_gp, df_liab, df_eps, df_ratio], axis=1) *)
FinalFrame(frame, cols) ==
    [s \in FrameSymbols(frame) |->
        [gp |-> PivotRow(frame, s, cols, "GP_pct"),
         liab |-> PivotRow(frame, s, cols, "Liability_pct"),
         eps |-> PivotRow(frame, s, cols, "EPS_pct"),
         ratio |-> Mean(SymbolValues(frame, s, "Liability_to_Asset_Ratio"))]]

(* df_final = pd.DataFrame(index=symbols): every symbol, no column *)
EmptyFinalFrame ==
    [s \in Symbols |-> [gp |-> <<>>, liab |-> <<>>, eps |-> <<>>, ratio |-> NaN]]

-----------------------------------------------------------------------------
(* Trend scoring *)

(* row.get(label): the cell of the column with that label, None (dropped
   like NaN) when the row has no such column *)
RowGet(cols, cells, label) ==
    IF \E i \in 1 .. Len(cols) : cols[i] = label
    THEN cells[CHOOSE i \in 1 .. Len(cols) : cols[i] = label]
    ELSE NaN

(* annual: [row.get(col(y)) for y in years_order[::-1]]
   quarterly: [c for c in df_combined.columns if tag in c][-4:] *)
ScoreOrder_AsStored(cols) ==
    IF engine = "annual" THEN years_order ELSE LastN(cols, 4)

ScoreOrder(cols) ==
    IF engine = "annual" THEN Reverse(years_order) ELSE LastN(cols, 4)

ScoreInputs(cols, cells) ==
    LET order == ScoreOrder(cols)
    IN  [i \in 1 .. Len(order) |-> RowGet(cols, cells, order[i])]

RECURSIVE WeightedSum(_, _, _)
WeightedSum(vals, i, n) ==
    IF i > n THEN Num(0)
    ELSE Add(Mul(Num(2 * (i - 1) - (n - 1)), vals[i]), WeightedSum(vals, i + 1, n))

RECURSIVE SquareSum(_, _)
SquareSum(i, n) ==
    IF i > n THEN 0
    ELSE (2 * (i - 1) - (n - 1)) * (2 * (i - 1) - (n - 1)) + SquareSum(i + 1, n)

(* np.polyfit(np.arange(n), y, 1)[0] for finite y: with c_i = 2 i - (n - 1),
   slope = 2 * sum(c_i y_i) / sum(c_i ^ 2) *)
PolyfitSlope(vals) ==
    LET n == Len(vals)
    IN  Div(Mul(Num(2), WeightedSum(vals, 1, n)), Num(SquareSum(1, n)))

HasInf(vals) == \E i \in 1 .. Len(vals) : IsInf(vals[i])

TrendDivisor == 50

(* The result stands for tanh(a): the model keeps the argument a, which has
   the sign of the score, is 0 exactly when the score is 0 and is NaN exactly
   when the score is NaN.  An infinite input makes polyfit return NaN here;
   TrendScoringRaises is the other outcome of the same input. *)
Tanh(a) == [tanh |-> a]

trend_score_KeepsNa(values) ==
    IF Len(values) < 2 THEN Tanh(Num(0))
    ELSE IF HasInf(values) THEN Tanh(NaN)
    ELSE Tanh(Div(PolyfitSlope(values), Num(TrendDivisor)))

trend_score(values) ==
    LET kept == DropNa(values)
    IN  IF Len(kept) < 2 THEN Tanh(Num(0))
        ELSE IF HasInf(kept) THEN Tanh(NaN)
        ELSE Tanh(Div(PolyfitSlope(kept), Num(TrendDivisor)))

(* -trend_score(...): tanh is odd *)
Negated(score) == Tanh(Neg(score.tanh))

-----------------------------------------------------------------------------
(* Composite ranking *)

(* Series.min() / Series.max(): NaN skipped, NaN when nothing is left *)
MinOf(S) == IF S = {} THEN NaN ELSE CHOOSE v \in S : \A w \in S : ~Less(w, v)

MaxOf(S) == IF S = {} THEN NaN ELSE CHOOSE v \in S : \A w \in S : ~Less(v, w)

Normalized(v, lo, hi) == Div(Sub(v, lo), Sub(hi, lo))

(* The sum of the four columns.  The three trend scores are tanh values, so
   the sum is kept as its addends; float addition makes it NaN exactly when
   an addend is NaN (no addend is infinite: see Normalized and Tanh). *)
FinalScore(r) ==
    [nan |-> \/ IsNaN(r.GP_Trend_Score.tanh)
             \/ IsNaN(r.Liability_Trend_Score.tanh)
             \/ IsNaN(r.EPS_Trend_Score.tanh)
             \/ IsNaN(r.Liability_to_Asset_Score),
     addends |-> <<r.GP_Trend_Score, r.Liability_Trend_Score,
                   r.EPS_Trend_Score, r.Liability_to_Asset_Score>>]

-----------------------------------------------------------------------------
(* What the market-data provider can return for one symbol *)

(* how many periods back a provider's most recent statement may be *)
Lags == {0, 1, 2}

(* the i-th most recent period end of the engine's calendar: fiscal year
   ends (December) or quarter ends *)
CalendarDate(i) ==
    IF engine = "annual" THEN Date(current_year - i, 12)
    ELSE Date(current_year, 12) - 3 * i

(* a second statement in the year (annual: January) or quarter (quarterly:
   the month before) of the statement dated d, as after a change of fiscal
   year end *)
OffCycle(d) == IF engine = "annual" THEN d - 11 ELSE d - 1

(* a statement index, most recent first: n consecutive period ends starting
   lag periods back; "offcycle" adds an off-cycle statement after the most
   recent one, "badlabel" adds a trailing label that is not a date *)
StatementIndex(lag, n, extra) ==
    LET regular == [k \in 1 .. n |-> CalendarDate(lag + k - 1)]
    IN  IF n = 0 THEN <<>>
        ELSE IF extra = "offcycle"
             THEN <<regular[1], OffCycle(regular[1])>> \o Tail(regular)
        ELSE IF extra = "badlabel" THEN Append(regular, BadLabel)
        ELSE regular

Labels(lags, extras) ==
    {StatementIndex(lag, n, extra) :
        lag \in lags, n \in 0 .. MaxRows, extra \in extras}

(* a series over n rows, most recent first, growing by step from the oldest
   row, which holds first *)
LinearSeries(n, first, step) == [k \in 1 .. n |-> Num(first + step * (n - k))]

NA == NaN

Values == {NA} \cup {Num(v) : v \in 0 .. MaxVal}

AnySeries(n) == [1 .. n -> Values]

(* each metric of a statement gets the same series: the percentage changes
   of a metric depend on its own series only *)
IncomeStatement(index, series) ==
    [hasBasic |-> TRUE, hasDiluted |-> FALSE,
     rows |-> [k \in 1 .. Len(index) |->
                 [label |-> index[k], gp |-> series[k],
                  basic |-> series[k], diluted |-> NA]]]

BalanceSheet(index, series, ta) ==
    [k \in 1 .. Len(index) |->
        [label |-> index[k], cl |-> series[k], ocl |-> Num(0), ta |-> ta]]

IndexOf(income) == [k \in 1 .. Len(income.rows) |-> income.rows[k].label]

TotalAssetsValue == 4

(* whole runs: regular statements at every lag and an off-cycle statement at
   lag 0, linear series; the balance sheet has the dates of the income
   statement or is empty *)
SeriesKinds == {<<1, 1>>, <<0, 1>>}

Incomes ==
    {IncomeStatement(index, LinearSeries(Len(index), kind[1], kind[2])) :
        index \in Labels(Lags, {"regular"}) \cup Labels({0}, {"offcycle"}),
        kind \in SeriesKinds}

Balances(income) ==
    {BalanceSheet(index, LinearSeries(Len(index), 1, 1), Num(TotalAssetsValue)) :
        index \in {<<>>, IndexOf(income)}}

(* collection only: every kind of index at lag 0 for the income statement,
   and a balance sheet with its own index, which may end in a label that is
   not a date *)
CollectIncomes ==
    {IncomeStatement(index, LinearSeries(Len(index), 1, 1)) :
        index \in Labels({0}, {"regular", "offcycle", "badlabel"})}

CollectBalances ==
    {BalanceSheet(index, LinearSeries(Len(index), 1, 1), Num(TotalAssetsValue)) :
        index \in Labels(0 .. 1, {"regular", "badlabel"})}

(* percentage changes: regular statements at lag 0 with any series of
   Values, the balance sheet with the same dates and series *)
PctIncomes ==
    UNION {{IncomeStatement(index, series) : series \in AnySeries(Len(index))} :
              index \in Labels({0}, {"regular"})}

EpsCells(present, v) == IF present THEN {NA, Num(v)} ELSE {NA}

EpsStatements(hb, hd, index) ==
    {[hasBasic |-> hb, hasDiluted |-> hd,
      rows |-> [k \in 1 .. Len(index) |->
                  [label |-> index[k], gp |-> Num(1),
                   basic |-> cells[k][1], diluted |-> cells[k][2]]]] :
        cells \in [1 .. Len(index) -> EpsCells(hb, 1) \X EpsCells(hd, 2)]}

(* EPS columns: either column may be missing from the statement, and a cell
   of a column that is there may be empty *)
EpsIncomes ==
    UNION {EpsStatements(f[1], f[2], index) :
              f \in BOOLEAN \X BOOLEAN, index \in Labels({0}, {"regular"})}

-----------------------------------------------------------------------------
(* The run *)

Init ==
    /\ engine \in {"annual", "quarterly"}
    /\ pc = "collect"
    /\ pos = 1
    /\ results = <<>>
    /\ errors = {}
    /\ df = <<>>
    /\ window = <<>>
    /\ df_final = <<>>
    /\ df_combined = <<>>
    /\ score_periods = <<>>
    /\ input = <<>>
    /\ ts_result = Tanh(Num(0))

Advance == IF pos = Len(symbols) THEN "derive" ELSE "collect"

(* ticker.financials / ticker.balance_sheet raise: nothing was appended *)
FetchFails ==
    /\ pc = "collect"
    /\ errors' = errors \cup {symbols[pos]}
    /\ pos' = pos + 1
    /\ pc' = Advance
    /\ UNCHANGED <<engine, results, df, window, df_final, df_combined,
                   score_periods, input, ts_result>>

(* one iteration of `for symbol in symbols`: the try block and its except *)
ProcessSymbol(income, balance) ==
    /\ pc = "collect"
    /\ LET out == TryBody(results, symbols[pos], income, balance)
       IN  /\ results' = out.res
           /\ errors' = IF out.raised THEN errors \cup {symbols[pos]} ELSE errors
    /\ pos' = pos + 1
    /\ pc' = Advance
    /\ UNCHANGED <<engine, df, window, df_final, df_combined,
                   score_periods, input, ts_result>>

Collect == \E income \in Incomes : \E balance \in Balances(income) :
               ProcessSymbol(income, balance)

(* df = pd.DataFrame(results) ... df_final: the if / else after the loop.
   Uncaught in the if branch: a Period that is not a date (sort_values and
   .dt, quarterly), no record with balance keys (KeyError on
   df['Current_Liabilities']), a repeated (Symbol, Year) (df.pivot). *)
DeriveRaises ==
    \/ \E k \in 1 .. Len(results) : ~IsDate(results[k].Period)
    \/ \A k \in 1 .. Len(results) : ~results[k].bal
    \/ engine = "annual" /\ HasDuplicateKeys(results)

Derive ==
    /\ pc = "derive"
    /\ IF results = <<>>
       THEN /\ df_final' = EmptyFinalFrame
            /\ pc' = "merge"
            /\ UNCHANGED <<df, window>>
       ELSE IF DeriveRaises
       THEN /\ pc' = "aborted"
            /\ UNCHANGED <<df, window, df_final>>
       ELSE LET frame == DeriveFrame(results)
                cols == IF engine = "annual" THEN years_order ELSE last4_qtrs(frame)
            IN  /\ df' = frame
                /\ window' = cols
                /\ df_final' = FinalFrame(frame, cols)
                /\ pc' = "merge"
    /\ UNCHANGED <<engine, pos, results, errors, df_combined, score_periods,
                   input, ts_result>>

(* what get_filtered_institutional_data_df returns; it never raises *)
InstSummaries == {"No institutional holders data"}

(* df_final.merge(df_institutional, left_index=True, right_index=True):
   an inner join on the index; df_institutional has every symbol *)
MergedFrame(final, inst) ==
    [s \in (DOMAIN final) \cap (DOMAIN inst) |->
        [gp |-> final[s].gp, liab |-> final[s].liab, eps |-> final[s].eps,
         Liability_to_Asset_Ratio |-> final[s].ratio,
         Institutional_Holdings |-> inst[s],
         gp_in |-> <<>>, liab_in |-> <<>>, eps_in |-> <<>>,
         GP_Trend_Score |-> Tanh(NaN), Liability_Trend_Score |-> Tanh(NaN),
         EPS_Trend_Score |-> Tanh(NaN), Liability_to_Asset_Score |-> NaN,
         Final_Score |-> [nan |-> TRUE, addends |-> <<>>]]]

MergeInstitutional ==
    /\ pc = "merge"
    /\ \E inst \in [Symbols -> InstSummaries] :
           df_combined' = MergedFrame(df_final, inst)
    /\ pc' = "trend"
    /\ UNCHANGED <<engine, pos, results, errors, df, window, df_final,
                   score_periods, input, ts_result>>

(* the frame has the window columns and the ratio column only when the if
   branch built it; years_order is assigned only there *)
HasColumns == df # <<>>

ScoredRow(r) ==
    LET gi == ScoreInputs(window, r.gp)
        li == ScoreInputs(window, r.liab)
        ei == ScoreInputs(window, r.eps)
    IN  [r EXCEPT !.gp_in = gi, !.liab_in = li, !.eps_in = ei,
                  !.GP_Trend_Score = trend_score(gi),
                  !.Liability_Trend_Score = Negated(trend_score(li)),
                  !.EPS_Trend_Score = trend_score(ei)]

InfiniteInput(table) ==
    \E s \in DOMAIN table :
        \/ HasInf(ScoreInputs(window, table[s].gp))
        \/ HasInf(ScoreInputs(window, table[s].liab))
        \/ HasInf(ScoreInputs(window, table[s].eps))

(* df_combined[...] = df_combined.apply(lambda row: trend_score(...), axis=1)
   for the three metrics.  Annual, else branch: years_order is not defined
   and the lambda raises NameError on the first row. *)
TrendScoring ==
    /\ pc = "trend"
    /\ IF engine = "annual" /\ ~HasColumns /\ DOMAIN df_combined # {}
       THEN /\ pc' = "aborted"
            /\ UNCHANGED <<df_combined, score_periods>>
       ELSE /\ df_combined' = [s \in DOMAIN df_combined |-> ScoredRow(df_combined[s])]
            /\ score_periods' = IF HasColumns THEN ScoreOrder(window) ELSE <<>>
            /\ pc' = "normalize"
    /\ UNCHANGED <<engine, pos, results, errors, df, window, df_final,
                   input, ts_result>>

(* np.polyfit on an infinite value: NaN coefficients (trend_score above) or
   LinAlgError from the LAPACK driver, depending on the build *)
TrendScoringRaises ==
    /\ pc = "trend"
    /\ HasColumns
    /\ InfiniteInput(df_combined)
    /\ pc' = "aborted"
    /\ UNCHANGED <<engine, pos, results, errors, df, window, df_final,
                   df_combined, score_periods, input, ts_result>>

(* min_val, max_val, Liability_to_Asset_Score; KeyError when the frame has
   no Liability_to_Asset_Ratio column *)
Normalize ==
    /\ pc = "normalize"
    /\ IF ~HasColumns
       THEN /\ pc' = "aborted"
            /\ UNCHANGED df_combined
       ELSE LET ratios == {df_combined[s].Liability_to_Asset_Ratio : s \in DOMAIN df_combined}
                                \ {NaN}
                min_val == MinOf(ratios)
                max_val == MaxOf(ratios)
            IN  /\ df_combined' =
                       [s \in DOMAIN df_combined |->
                           [df_combined[s] EXCEPT !.Liability_to_Asset_Score =
                               Normalized(df_combined[s].Liability_to_Asset_Ratio,
                                          min_val, max_val)]]
                /\ pc' = "final"
    /\ UNCHANGED <<engine, pos, results, errors, df, window, df_final,
                   score_periods, input, ts_result>>

FinalScores ==
    /\ pc = "final"
    /\ df_combined' =
           [s \in DOMAIN df_combined |->
               [df_combined[s] EXCEPT !.Final_Score = FinalScore(df_combined[s])]]
    /\ pc' = "sort"
    /\ UNCHANGED <<engine, pos, results, errors, df, window, df_final,
                   score_periods, input, ts_result>>

(* sort_values("Final_Score", ascending=False): NaN rows go last, nothing
   raises.  The table is kept as a mapping from symbol to row, so the row
   order is not part of the state. *)
SortRows ==
    /\ pc = "sort"
    /\ pc' = "export"
    /\ UNCHANGED <<engine, pos, results, errors, df, window, df_final,
                   df_combined, score_periods, input, ts_result>>

(* df_combined.to_excel(...) *)
Export ==
    /\ pc = "export"
    /\ pc' = "exported"
    /\ UNCHANGED <<engine, pos, results, errors, df, window, df_final,
                   df_combined, score_periods, input, ts_result>>

Next ==
    \/ FetchFails
    \/ Collect
    \/ Derive
    \/ MergeInstitutional
    \/ TrendScoring
    \/ TrendScoringRaises
    \/ Normalize
    \/ FinalScores
    \/ SortRows
    \/ Export

Spec == Init /\ [][Next]_vars

-----------------------------------------------------------------------------
(* The collection loop alone, over every kind of statement index *)

CollectStatements ==
    \E income \in CollectIncomes : \E balance \in CollectBalances :
        ProcessSymbol(income, balance)

NextCollect == FetchFails \/ CollectStatements

SpecCollect == Init /\ [][NextCollect]_vars

-----------------------------------------------------------------------------
(* The EPS choice: the provider's income statement is drawn first and every
   symbol of the universe is given it *)

InitEps ==
    /\ engine \in {"annual", "quarterly"}
    /\ pc = "collect"
    /\ pos = 1
    /\ results = <<>>
    /\ errors = {}
    /\ df = <<>>
    /\ window = <<>>
    /\ df_final = <<>>
    /\ df_combined = <<>>
    /\ score_periods = <<>>
    /\ input \in EpsIncomes
    /\ ts_result = Tanh(Num(0))

CollectInput == ProcessSymbol(input, <<>>)

NextEps == CollectInput

SpecEps == InitEps /\ [][NextEps]_vars

-----------------------------------------------------------------------------
(* Percentage changes: collection of arbitrary series, then the derivation *)

SeriesOf(income) == [k \in 1 .. Len(income.rows) |-> income.rows[k].gp]

CollectSeries ==
    \E income \in PctIncomes :
        ProcessSymbol(income,
                      BalanceSheet(IndexOf(income), SeriesOf(income),
                                   Num(TotalAssetsValue)))

NextPct == CollectSeries \/ Derive

SpecPct == Init /\ [][NextPct]_vars

-----------------------------------------------------------------------------
(* trend_score as a function of its argument *)

TrendValues == {NA} \cup {Num(v) : v \in (0 - MaxVal) .. MaxVal}

TrendInputs == UNION {[1 .. n -> TrendValues] : n \in 0 .. MaxLen}

InitTrend ==
    /\ engine \in {"annual", "quarterly"}
    /\ pc = "trend_fn"
    /\ pos = 1
    /\ results = <<>>
    /\ errors = {}
    /\ df = <<>>
    /\ window = <<>>
    /\ df_final = <<>>
    /\ df_combined = <<>>
    /\ score_periods = <<>>
    /\ input \in TrendInputs
    /\ ts_result = Tanh(Num(0))

ApplyTrendScore ==
    /\ pc = "trend_fn"
    /\ ts_result' = trend_score(input)
    /\ pc' = "trend_done"
    /\ UNCHANGED <<engine, pos, results, errors, df, window, df_final,
                   df_combined, score_periods, input>>

NextTrend == ApplyTrendScore

SpecTrend == InitTrend /\ [][NextTrend]_vars

-----------------------------------------------------------------------------
(* Properties *)

LoopDone == pc # "collect"

Merged == pc \in {"trend", "normalize", "final", "sort", "export", "exported"}

Scored == pc \in {"normalize", "final", "sort", "export", "exported"}

Summed == pc \in {"sort", "export", "exported"}

RecordsOf(s) == {k \in 1 .. Len(results) : results[k].Symbol = s}

(* C1: when the try block of a symbol raised, at whatever point, the results
   list holds no record of that symbol after the loop, and the loop went on
   to the end of the universe. *)
C1_RaisedSymbolLeavesNoRecord ==
    LoopDone =>
        /\ \A s \in errors : RecordsOf(s) = {}
        /\ pos = Len(symbols) + 1

(* C2: the results list never holds two records with the same
   (Symbol, Period) key, the period being the calendar year of the statement
   date (annual) or the statement date (quarterly). *)
C2_OneRecordPerKey ==
    \A i, j \in 1 .. Len(results) :
        (results[i].Symbol = results[j].Symbol /\ results[i].Period = results[j].Period)
            => i = j

(* C3: the output table has a row for every symbol of the universe, and the
   row of a symbol without records has only not-available metric cells. *)
C3_RowForEverySymbol ==
    Merged =>
        /\ DOMAIN df_combined = Symbols
        /\ \A s \in Symbols :
               RecordsOf(s) = {} =>
                   /\ \A i \in 1 .. Len(df_combined[s].gp) : IsNaN(df_combined[s].gp[i])
                   /\ \A i \in 1 .. Len(df_combined[s].liab) : IsNaN(df_combined[s].liab[i])
                   /\ \A i \in 1 .. Len(df_combined[s].eps) : IsNaN(df_combined[s].eps[i])
                   /\ IsNaN(df_combined[s].Liability_to_Asset_Ratio)

(* C4: whatever the providers returned, the run never aborts. *)
C4_RunNeverAborts == pc # "aborted"

PriorRecords(r) ==
    {j \in 1 .. Len(results) :
        results[j].Symbol = r.Symbol /\ results[j].Period < r.Period}

PrecedingValue(r, field) ==
    IF PriorRecords(r) = {} THEN NA
    ELSE results[CHOOSE j \in PriorRecords(r) :
                    \A i \in PriorRecords(r) : results[i].Period <= results[j].Period][field]

ClaimedPct(cur, prev) ==
    IF IsNaN(cur) \/ IsNaN(prev) THEN NA
    ELSE IF prev.n = 0 THEN NA
    ELSE Rat((cur.n * prev.d - prev.n * cur.d) * 100, cur.d * prev.n)

(* C5: the percentage change of a record is (current - previous) / previous
   * 100 against the record of the same symbol that precedes it in period
   order; it is not-available for a first record, for a not-available
   operand and whenever previous is zero. *)
C5_PctChangeAgainstPreceding ==
    \A k \in 1 .. Len(df) :
        /\ df[k].GP_pct =
               ClaimedPct(df[k].Gross_Profit, PrecedingValue(df[k], "Gross_Profit"))
        /\ df[k].EPS_pct = ClaimedPct(df[k].EPS, PrecedingValue(df[k], "EPS"))
        /\ df[k].Liability_pct =
               ClaimedPct(df[k].Current_Liabilities,
                          PrecedingValue(df[k], "Current_Liabilities"))

(* C6: the Final_Score of every output row is a number, a not-available
   Liability_to_Asset_Score counting as 0. *)
C6_FinalScoreIsNumber ==
    Summed => \A s \in DOMAIN df_combined : ~df_combined[s].Final_Score.nan

RECURSIVE PairSum(_, _, _)
PairSum(vals, i, j) ==
    IF i >= Len(vals) THEN Num(0)
    ELSE IF j > Len(vals) THEN PairSum(vals, i + 1, i + 2)
    ELSE Add(Mul(Num(j - i), Sub(vals[j], vals[i])), PairSum(vals, i, j + 1))

(* the sign of the least-squares slope of vals against 0, 1, 2, ...:
   that of the sum over i < j of (j - i) (y_j - y_i) *)
SlopeSign(vals) == Sign(PairSum(vals, 1, 2))

Increasing(vals) == \A i \in 1 .. Len(vals) - 1 : Less(vals[i], vals[i + 1])

Decreasing(vals) == \A i \in 1 .. Len(vals) - 1 : Less(vals[i + 1], vals[i])

Constant(vals) == \A i \in 1 .. Len(vals) - 1 : vals[i] = vals[i + 1]

(* C7: trend_score drops the not-available entries; with fewer than 2 values
   left the score is exactly 0; otherwise it has the sign of the
   least-squares slope of the values left: positive for a strictly
   increasing sequence, negative for a strictly decreasing one, 0 for a
   constant one. *)
C7_TrendScoreSign ==
    pc = "trend_done" =>
        LET kept == DropNa(input)
        IN  /\ Len(kept) < 2 => ts_result = Tanh(Num(0))
            /\ Len(kept) >= 2 =>
                   /\ IsFinite(ts_result.tanh)
                   /\ Sign(ts_result.tanh) = SlopeSign(kept)
                   /\ Increasing(kept) => Sign(ts_result.tanh) = 1
                   /\ Decreasing(kept) => Sign(ts_result.tanh) = -1
                   /\ Constant(kept) => ts_result = Tanh(Num(0))

C7_Witness ==
    /\ pc = "trend_done"
    /\ Len(input) > Len(DropNa(input))
    /\ Len(DropNa(input)) >= 3
    /\ ~Increasing(DropNa(input))
    /\ Sign(ts_result.tanh) = 1

ChronoLess(p, q) == IF engine = "annual" THEN p < q ELSE QuarterLess(p, q)

(* C8: in both engines the values passed to trend_score are in chronological
   order, oldest period first: the i-th value passed for a symbol and metric
   is that symbol's percentage change of the i-th oldest window period. *)
C8_ScoredOldestFirst ==
    Scored =>
        /\ \A i, j \in 1 .. Len(score_periods) :
               i < j => ChronoLess(score_periods[i], score_periods[j])
        /\ \A s \in DOMAIN df_combined :
               /\ Len(df_combined[s].gp_in) = Len(score_periods)
               /\ Len(df_combined[s].liab_in) = Len(score_periods)
               /\ Len(df_combined[s].eps_in) = Len(score_periods)
               /\ \A i \in 1 .. Len(score_periods) :
                      /\ df_combined[s].gp_in[i] =
                             PivotCell(df, s, score_periods[i], "GP_pct")
                      /\ df_combined[s].liab_in[i] =
                             PivotCell(df, s, score_periods[i], "Liability_pct")
                      /\ df_combined[s].eps_in[i] =
                             PivotCell(df, s, score_periods[i], "EPS_pct")

C8_Witness ==
    /\ pc = "normalize"
    /\ engine = "annual"
    /\ \E s \in DOMAIN df_combined :
           /\ Len(DropNa(df_combined[s].gp_in)) >= 2
           /\ Sign(df_combined[s].GP_Trend_Score.tanh) = -1

InputRow(key) ==
    input.rows[CHOOSE k \in 1 .. Len(input.rows) : KeyOf(input.rows[k].label) = key]

ClaimedEps(row) ==
    IF input.hasBasic /\ ~IsNaN(row.basic) THEN row.basic
    ELSE IF input.hasDiluted /\ ~IsNaN(row.diluted) THEN row.diluted
    ELSE NA

(* C9: the eps of every income record is the basic EPS of that record when
   present, otherwise its diluted EPS when present, otherwise
   not-available. *)
C9_EpsFallbackPerRecord ==
    LoopDone =>
        \A k \in 1 .. Len(results) :
            results[k].EPS = ClaimedEps(InputRow(results[k].Period))

ZeroScore(score) == score = Tanh(Num(0))

(* C10: annual engine: the column of the oldest window year is not-available
   for every symbol and metric, so each trend score is computed from at most
   3 values, and it is 0 for a symbol with records in fewer than 3 years. *)
C10_OldestYearColumnEmpty ==
    (engine = "annual" /\ Scored) =>
        \A s \in DOMAIN df_combined :
            LET r == df_combined[s]
            IN  /\ IsNaN(RowGet(window, r.gp, current_year - 3))
                /\ IsNaN(RowGet(window, r.liab, current_year - 3))
                /\ IsNaN(RowGet(window, r.eps, current_year - 3))
                /\ Len(DropNa(r.gp_in)) <= 3
                /\ Len(DropNa(r.liab_in)) <= 3
                /\ Len(DropNa(r.eps_in)) <= 3
                /\ Cardinality({results[k].Period : k \in RecordsOf(s)}) < 3 =>
                       /\ ZeroScore(r.GP_Trend_Score)
                       /\ ZeroScore(r.Liability_Trend_Score)
                       /\ ZeroScore(r.EPS_Trend_Score)

C10_Witness ==
    /\ engine = "annual"
    /\ pc = "normalize"
    /\ \E s \in DOMAIN df_combined :
           /\ \E k \in RecordsOf(s) : results[k].Period = current_year - 3
           /\ ~ZeroScore(df_combined[s].GP_Trend_Score)
           /\ ~IsNaN(df_combined[s].GP_Trend_Score.tanh)
    /\ \E s \in DOMAIN df_combined :
           /\ Cardinality(RecordsOf(s)) = 2
           /\ ZeroScore(df_combined[s].GP_Trend_Score)

=============================================================================
